---- MODULE Spec2Model ----
(***************************************************************************)
(* The export pipeline of src/lib.rs: fetch_stats, gather_imessage_data,   *)
(* send_stats and encrypt_data, as a state machine.  Several fetch_stats   *)
(* runs share one process: the SQLite runtime, the HOME environment        *)
(* variable, stdout/stderr and the network are process-wide, everything    *)
(* else is local to a run.  Each action is one step of one run between two *)
(* points where another run (or the host) can be observed to act.          *)
(***************************************************************************)
EXTENDS Integers, Sequences, FiniteSets, TLC

\* ---------------------------------------------------------------- bounds
\* Number of fetch_stats invocations the host makes (they may interleave).
NumRuns == 2
\* Most source databases get_address_book_db_connections opens for one run.
MaxShards == 1

Runs == 1..NumRuns

\* Longest list of messages the sort is given.
MaxMsgs == 3

\* Most source databases the address book holds when has_contacts looks.
MaxSources == 2

\* ------------------------------------------------------- program constants
\* let mut key_bytes = [0u8; 32];
KeyLen == 32
\* Nonce::from_slice(&[0u8; 12])
NonceLen == 12
\* .timeout(Duration::from_secs(30))
TimeoutSecs == 30

\* String::from("https://messageswrapped.com")
DefaultBaseUrl == "https://messageswrapped.com"

\* The api_url arguments the host passes to fetch_stats.
ApiUrls == {"https://mw.test"}

\* stats.encode_to_vec(): the serialized aggregate, opaque bytes here.
StatsBytes == <<8, 1, 16, 2>>

Range(s) == {s[i] : i \in DOMAIN s}

\* ------------------------------------------------------------ URL-safe base64
\* base64::engine::general_purpose::URL_SAFE: RFC 4648 section 5 alphabet, padded.
Alphabet ==
  << "A","B","C","D","E","F","G","H","I","J","K","L","M","N","O","P",
     "Q","R","S","T","U","V","W","X","Y","Z","a","b","c","d","e","f",
     "g","h","i","j","k","l","m","n","o","p","q","r","s","t","u","v",
     "w","x","y","z","0","1","2","3","4","5","6","7","8","9","-","_" >>

\* URL_SAFE.encode(bytes): 3 bytes -> 4 characters, '=' padding on the last group.
Base64Url(bytes) ==
  LET n == Len(bytes)
      groups == (n + 2) \div 3
      B(i) == IF i <= n THEN bytes[i] ELSE 0
      Chunk(g) ==
        LET v == B(3*g - 2) * 65536 + B(3*g - 1) * 256 + B(3*g)
            have == n - 3 * (g - 1)
        IN << Alphabet[(v \div 262144) + 1],
              Alphabet[((v \div 4096) % 64) + 1],
              IF have >= 2 THEN Alphabet[((v \div 64) % 64) + 1] ELSE "=",
              IF have >= 3 THEN Alphabet[(v % 64) + 1] ELSE "=" >>
  IN [i \in 1..(4 * groups) |-> Chunk((i + 3) \div 4)[((i - 1) % 4) + 1]]

\* base64::encoded_len(n, padding = true)
Base64Len(n) == 4 * ((n + 2) \div 3)

\* ------------------------------------------------------------------ errors
\* An AnalyzerError value: the failing operation and the text it carries.
Error(tag, detail) == [tag |-> tag, detail |-> detail]
NoError == Error("none", <<>>)

\* Failures of gather_imessage_data (the `?` at lines 110, 114, 119, 120, 127).
GatherTags == {"chat_db_open", "messages_query", "address_book_enum",
               "contacts_new", "handles_new"}
\* Failure of the message-store open inside send_stats (the `?` at line 205).
SendStoreTags == {"send_chat_db_open"}
\* Failures of encrypt_data (the `?` at lines 157-158 and 181).
PackageTags == {"compress_io", "encrypt"}
\* Failures of the upload (lines 253-265, 267-284, 286-289).
UploadTags == {"timeout", "connect", "request", "http_status", "response_json"}

\* ---------------------------------------------------------------- messages
\* Message::date values (i64 timestamps); equal and negative ones occur.
Dates == {-1, 0, 1}

\* What Message::query_all yields: the rows in retrieval order, each with its
\* position in that order (rowid) and its date.
MessageLists ==
  UNION {{[i \in 1..n |-> [rowid |-> i, date |-> d[i]]] : d \in [1..n -> Dates]} :
         n \in 0..MaxMsgs}

\* An insertion that puts m before the elements with an equal key.
InsertBeforeEqual(sorted, m) ==
  LET k == Cardinality({i \in DOMAIN sorted : sorted[i].date < m.date})
  IN SubSeq(sorted, 1, k) \o <<m>> \o SubSeq(sorted, k + 1, Len(sorted))

\* One step of the insertion sort slice::sort_by_key runs on short slices: m
\* goes behind every element whose key is not greater than its own.
InsertByKey(sorted, m) ==
  LET k == Cardinality({i \in DOMAIN sorted : sorted[i].date <= m.date})
  IN SubSeq(sorted, 1, k) \o <<m>> \o SubSeq(sorted, k + 1, Len(sorted))

\* messages.sort_by_key(|m| m.date)
RECURSIVE SortByKey(_)
SortByKey(messages) ==
  IF messages = <<>> THEN <<>>
  ELSE InsertByKey(SortByKey(SubSeq(messages, 1, Len(messages) - 1)),
                   messages[Len(messages)])

\* ------------------------------------------------------- auxiliary queries
\* 1_048_576.0
BytesPerMb == 1048576

\* fs::metadata(&db_path): an error, or the length of the file in bytes.
Metadatas ==
  {[ok |-> FALSE, len |-> 0]} \cup [ok : {TRUE}, len : {0, 1572864, 10485760}]

\* metadata.len() as f64 / 1_048_576.0, which is exact for these lengths: the
\* whole megabytes and the remaining bytes, in units of 1/1_048_576 MB.
Mb(len) == [whole |-> len \div BytesPerMb, part |-> len % BytesPerMb]

\* What the call of an exported function gives the host.
Returned(value) == [kind |-> "ok", value |-> value]
Unwound(line) == [kind |-> "panic", value |-> line]
NotCalled == [kind |-> "none", value |-> 0]

\* get_chat_db_size(), lines 459-468
get_chat_db_size(home_set, metadata) ==
  IF ~home_set THEN Unwound(461)
  ELSE Returned(IF metadata.ok THEN Mb(metadata.len) ELSE Mb(0))

\* get_address_book_db_connections(&address_book_path): an error, or one
\* connection per source database; Contact::query_all on a connection fails
\* ("query_err"), finds no record ("empty") or finds some ("some").
Books ==
  {[ok |-> FALSE, sources |-> <<>>]}
  \cup [ok : {TRUE},
        sources : UNION {[1..n -> {"query_err", "empty", "some"}] : n \in 0..MaxSources}]

\* has_contacts(), lines 470-486
has_contacts(home_set, book) ==
  IF ~home_set THEN Unwound(473)
  ELSE IF ~book.ok THEN Returned(FALSE)
  ELSE Returned(\E i \in DOMAIN book.sources : book.sources[i] = "some")

\* ------------------------------------------------------------ local storage
\* What the code has done with a rusqlite connection handle: not opened it;
\* opened it and still holding it; passed it to close(), which returned Ok;
\* passed it to close(), which returned Err, and discarded the result; let it
\* go out of scope without a close() call.  Whether the connection behind a
\* handle of the last two kinds is closed is decided by rusqlite's Drop, which
\* is not code of this repository, and is not modelled.
ConnStates == {"none", "open", "closed", "close_failed", "dropped"}

\* let _ = conn.close() (lines 122, 130): close() consumes the handle; when it
\* succeeds (ok) the connection is closed by it, when it fails the returned
\* (Connection, Error) pair is discarded by `let _ =`, the error unseen.
CloseConn(c, ok) == IF c = "open" THEN (IF ok THEN "closed" ELSE "close_failed") ELSE c

\* Scope exit with a live handle (the `?` returns of gather_imessage_data,
\* the end of send_stats, unwinding, a dropped future): the handle is gone
\* without a close() call.
DropConn(c) == IF c = "open" THEN "dropped" ELSE c

\* The handles of a Vec<Connection> that the code still holds after each has
\* been passed to close() or dropped.
Live(conns) == SelectSeq(conns, LAMBDA c : c = "open")

\* connection::init_sqlite / connection::shutdown_sqlite on the process-wide
\* runtime flag.
init_sqlite == TRUE
shutdown_sqlite == FALSE

\* A guard whose closure is never invoked.
GuardDropDefused(armed) == FALSE

\* Drop of `_guard` (scopeguard::guard((), |()| shutdown_sqlite())): whether
\* the closure runs when the scope of fetch_stats is left.
GuardDrop(armed) == armed

\* --------------------------------------------------------------- packaging
\* What the CompressorWriter (quality 11, lgwin 22) has written once `data`
\* went through write_all and flush and the writer was dropped.  The bytes of
\* the stream are the brotli crate's and are not computed: the model holds
\* the stream as a record of the call that made it, which says what went in
\* and nothing about what a decompressor makes of it.
Compress(data) == <<"brotli", data>>

\* Nonce::from_slice(&[0u8; 12])
ZeroNonce == [i \in 1..NonceLen |-> 0]

\* cipher.encrypt(iv, compressed): the bytes of the ciphertext are the aes-gcm
\* crate's and are not computed: the model holds the ciphertext as a record of
\* the call that made it (cipher key, nonce, plaintext), which says what went
\* in and nothing about decryption.
Seal(k, iv, pt) == <<"aes256gcm", k, iv, pt>>

\* The key and the nonce of the cipher.encrypt call that made a ciphertext
\* (<<>> for bytes that no cipher.encrypt call has made).
SealKey(sealed) == IF Len(sealed) = 4 THEN sealed[2] ELSE <<>>
SealNonce(sealed) == IF Len(sealed) = 4 THEN sealed[3] ELSE <<>>

\* let mut key_bytes = [0u8; 32] (line 171)
ZeroKey == [i \in 1..KeyLen |-> 0]

\* The k-th of the byte patterns a draw of the generator is tried with.
KeyPattern(k) == [i \in 1..KeyLen |-> (7 * i + 53 * k + 37) % 256]

\* The byte patterns a draw is tried with: one more than there are draws in a
\* behaviour (each run draws at most once), so that every draw can differ
\* from all the draws before it, as the draws of thread_rng do but for a
\* negligible probability.  The code does not compare a draw with an earlier
\* one, so equal draws are not excluded either.
KeySamples == {KeyPattern(k) : k \in 1..(NumRuns + 1)}

\* rng.fill(&mut key_bytes) (line 172): what the buffer may hold afterwards,
\* every byte of it overwritten, whatever it held and whatever was drawn before.
RngFill(key_bytes) == {k \in KeySamples : Len(k) = Len(key_bytes)}

\* encrypt_data sealing under, and returning, a key built into the program in
\* place of the bytes drawn.
encrypt_data_fixed_key(data, key_bytes) ==
  [key |-> [i \in 1..KeyLen |-> 42],
   encrypted |-> Seal([i \in 1..KeyLen |-> 42], ZeroNonce, Compress(data))]

\* encrypt_data returning the key bytes in both positions of its result.
encrypt_data_key_as_payload(data, key_bytes) ==
  [key |-> key_bytes, encrypted |-> key_bytes]

\* encrypt_data returning other bytes as the key than the ones it sealed with.
encrypt_data_other_key(data, key_bytes) ==
  [key |-> [i \in 1..KeyLen |-> (key_bytes[i] + 1) % 256],
   encrypted |-> Seal(key_bytes, ZeroNonce, Compress(data))]

\* encrypt_data(data) with the bytes the generator produced: Ok((key, encrypted)).
encrypt_data(data, key_bytes) ==
  [key |-> key_bytes, encrypted |-> Seal(key_bytes, ZeroNonce, Compress(data))]

\* ------------------------------------------------------------------ upload
\* api_url.unwrap_or_else(|| String::from("https://messageswrapped.com"))
\* (an Option<String>: <<>> is None, <<s>> is Some(s))
BaseUrl(api_url) == IF api_url = <<>> THEN DefaultBaseUrl ELSE api_url[1]

\* format!("{}/api/upload", base_url)
UploadUrl(base_url) == <<base_url, "/api/upload">>

\* client.post(&upload_url).timeout(30s).header(..).body(encrypted_data)
UploadRequest(upload_url, encrypted_data) ==
  [method |-> "POST", url |-> upload_url, timeout |-> TimeoutSecs,
   headers |-> {<<"Content-Type", "application/octet-stream">>},
   body |-> encrypted_data]

\* The key handed over as a query parameter, which a browser sends to the server.
ShareUrlQuery(base_url, id, key_base64) == <<base_url, "/s/", id, "?key=", key_base64>>

\* format!("{}/s/{}#{}", base_url, id, key_base64): the pieces in order, id as
\* the code points of its text.
ShareUrl(base_url, id, key_base64) == <<base_url, "/s/", id, "#", key_base64>>

\* What the server may answer: a status line, and a body that either arrives
\* whole (text) or fails while being read (readable = FALSE).
Responses ==
  [status : {200}, readable : {TRUE}, text : {"{}", "{\"id\":7}", "oops"}]
  \cup [status : {299}, readable : {TRUE}, text : {"{\"id\":\"abc\"}"}]
  \cup [status : {404}, readable : {TRUE}, text : {""}]
  \cup [status : {599}, readable : {TRUE}, text : {"oops"}]
  \cup [status : {200}, readable : {FALSE}, text : {""}]

NoResponse == [status |-> 0, readable |-> FALSE, text |-> ""]

\* response.status().is_success(): 200..=299
IsSuccess(status) == status >= 200 /\ status <= 299

\* status.canonical_reason(): the reason phrase the http crate registers for
\* the status (<<s>> is Some(s)), None (<<>>) for every other number.  The
\* table is that of http 1.4: 425 is registered from http 1.2 on, 103 from
\* http 1.4 on.
ReasonPhrase(status) ==
  CASE status = 100 -> <<"Continue">>
    [] status = 101 -> <<"Switching Protocols">>
    [] status = 102 -> <<"Processing">>
    [] status = 103 -> <<"Early Hints">>
    [] status = 200 -> <<"OK">>
    [] status = 201 -> <<"Created">>
    [] status = 202 -> <<"Accepted">>
    [] status = 203 -> <<"Non Authoritative Information">>
    [] status = 204 -> <<"No Content">>
    [] status = 205 -> <<"Reset Content">>
    [] status = 206 -> <<"Partial Content">>
    [] status = 207 -> <<"Multi-Status">>
    [] status = 208 -> <<"Already Reported">>
    [] status = 226 -> <<"IM Used">>
    [] status = 300 -> <<"Multiple Choices">>
    [] status = 301 -> <<"Moved Permanently">>
    [] status = 302 -> <<"Found">>
    [] status = 303 -> <<"See Other">>
    [] status = 304 -> <<"Not Modified">>
    [] status = 305 -> <<"Use Proxy">>
    [] status = 307 -> <<"Temporary Redirect">>
    [] status = 308 -> <<"Permanent Redirect">>
    [] status = 400 -> <<"Bad Request">>
    [] status = 401 -> <<"Unauthorized">>
    [] status = 402 -> <<"Payment Required">>
    [] status = 403 -> <<"Forbidden">>
    [] status = 404 -> <<"Not Found">>
    [] status = 405 -> <<"Method Not Allowed">>
    [] status = 406 -> <<"Not Acceptable">>
    [] status = 407 -> <<"Proxy Authentication Required">>
    [] status = 408 -> <<"Request Timeout">>
    [] status = 409 -> <<"Conflict">>
    [] status = 410 -> <<"Gone">>
    [] status = 411 -> <<"Length Required">>
    [] status = 412 -> <<"Precondition Failed">>
    [] status = 413 -> <<"Payload Too Large">>
    [] status = 414 -> <<"URI Too Long">>
    [] status = 415 -> <<"Unsupported Media Type">>
    [] status = 416 -> <<"Range Not Satisfiable">>
    [] status = 417 -> <<"Expectation Failed">>
    [] status = 418 -> <<"I'm a teapot">>
    [] status = 421 -> <<"Misdirected Request">>
    [] status = 422 -> <<"Unprocessable Entity">>
    [] status = 423 -> <<"Locked">>
    [] status = 424 -> <<"Failed Dependency">>
    [] status = 425 -> <<"Too Early">>
    [] status = 426 -> <<"Upgrade Required">>
    [] status = 428 -> <<"Precondition Required">>
    [] status = 429 -> <<"Too Many Requests">>
    [] status = 431 -> <<"Request Header Fields Too Large">>
    [] status = 451 -> <<"Unavailable For Legal Reasons">>
    [] status = 500 -> <<"Internal Server Error">>
    [] status = 501 -> <<"Not Implemented">>
    [] status = 502 -> <<"Bad Gateway">>
    [] status = 503 -> <<"Service Unavailable">>
    [] status = 504 -> <<"Gateway Timeout">>
    [] status = 505 -> <<"HTTP Version Not Supported">>
    [] status = 506 -> <<"Variant Also Negotiates">>
    [] status = 507 -> <<"Insufficient Storage">>
    [] status = 508 -> <<"Loop Detected">>
    [] status = 510 -> <<"Not Extended">>
    [] status = 511 -> <<"Network Authentication Required">>
    [] OTHER -> <<>>

\* status.canonical_reason().unwrap_or("Unknown error")
CanonicalReason(status) ==
  IF ReasonPhrase(status) = <<>> THEN "Unknown error" ELSE ReasonPhrase(status)[1]

\* response.text().await.unwrap_or_default()
BodyText(resp) == IF resp.readable THEN resp.text ELSE ""

\* The io::Error of lines 270-283: status, reason and the body text or the
\* placeholder.
StatusError(resp) ==
  Error("http_status",
        << resp.status, CanonicalReason(resp.status),
           IF BodyText(resp) = "" THEN "No error details provided"
           ELSE BodyText(resp) >>)

\* `{}` of a StatusCode: the number, a space, and the canonical reason or the
\* placeholder "<unknown status code>".
StatusText(status) ==
  ToString(status) \o " "
    \o (IF ReasonPhrase(status) = <<>> THEN "<unknown status code>"
        ELSE ReasonPhrase(status)[1])

\* One text for every failure of the upload.
ErrorMessageGeneric(e) == <<"Upload failed">>

\* The text of the io::Error send_stats builds for a failed upload (the
\* format! calls of lines 255-262 and 272-281, and the Display of the reqwest
\* error of line 289), as the pieces it is put together from.
ErrorMessage(e) ==
  CASE e.tag = "timeout" ->
         <<"Request timed out while uploading to ", e.detail[1], e.detail[2]>>
    [] e.tag = "connect" ->
         <<"Failed to connect to ", e.detail[1], e.detail[2],
           ". Please check your internet connection">>
    [] e.tag = "request" ->
         <<"Upload failed: ", "error sending request", " (URL: ",
           e.detail[1], e.detail[2], ")">>
    [] e.tag = "http_status" ->
         <<"Upload failed with status ", StatusText(e.detail[1]), ": ", e.detail[2],
           ". Server response: ", e.detail[3]>>
    [] e.tag = "response_json" -> <<"error decoding response body">>
    [] OTHER -> <<>>

\* --------------------------------------------------------------- JSON text
\* serde_json's reading of a response body (response.json(), lines 286-289),
\* with the features reqwest builds it with (no float_roundtrip, no
\* arbitrary_precision).
\* The i-th character of a text, "" past its end.
Ch(s, i) == IF i >= 1 /\ i <= Len(s) THEN SubSeq(s, i, i) ELSE ""

\* Whether the text w stands in s at position i.
StartsWith(s, i, w) == i + Len(w) - 1 <= Len(s) /\ SubSeq(s, i, i + Len(w) - 1) = w

DecDigits == "0123456789"
HexLower == "0123456789abcdef"
HexUpper == "0123456789ABCDEF"
\* The characters U+0020..U+005F and U+0061..U+007E.
AsciiLow == " !\"#$%&'()*+,-./0123456789:;<=>?@ABCDEFGHIJKLMNOPQRSTUVWXYZ[\\]^_"
AsciiHigh == "abcdefghijklmnopqrstuvwxyz{|}~"

IsDigit(c) == \E d \in 1..10 : Ch(DecDigits, d) = c
DigitVal(c) == (CHOOSE d \in 1..10 : Ch(DecDigits, d) = c) - 1
IsHex(c) == \E d \in 1..16 : Ch(HexLower, d) = c \/ Ch(HexUpper, d) = c
HexVal(c) == (CHOOSE d \in 1..16 : Ch(HexLower, d) = c \/ Ch(HexUpper, d) = c) - 1

\* The code point of a character of a body text.  The texts of the model are
\* written in the characters of AsciiLow and AsciiHigh and the white space
\* \t \n \f \r; every other character of a JSON string is written as an
\* escape in them.
CodePoint(c) ==
  CHOOSE n \in 32..126 :
    n # 96 /\ (IF n <= 95 THEN Ch(AsciiLow, n - 31) ELSE Ch(AsciiHigh, n - 96)) = c

\* The code points of a text, which is how the model holds a decoded string:
\* one number for each character, so that two decoded strings are equal
\* exactly when their characters are.
CodePoints(text) == [k \in 1..Len(text) |-> CodePoint(Ch(text, k))]

RECURSIVE SkipWs(_, _)
SkipWs(s, i) == IF Ch(s, i) \in {" ", "\t", "\n", "\r"} THEN SkipWs(s, i + 1) ELSE i

RECURSIVE SkipDigits(_, _)
SkipDigits(s, i) == IF IsDigit(Ch(s, i)) THEN SkipDigits(s, i + 1) ELSE i

\* A parse that failed, and one that read a value of the given kind up to pos.
JsonFail ==
  [ok |-> FALSE, pos |-> 0, kind |-> "error", str |-> <<>>, idKind |-> "none", idStr |-> <<>>]
JsonOk(pos, kind, str) ==
  [ok |-> TRUE, pos |-> pos, kind |-> kind, str |-> str, idKind |-> "none", idStr |-> <<>>]

\* u64::MAX and i32::MAX, the widths serde_json reads a significand and an
\* exponent in.  A significand is held as its decimal digits.
U64Max == "18446744073709551615"
I32Max == 2147483647

\* Whether the decimal a is greater than the decimal b of the same length,
\* their digits before the k-th being equal.
RECURSIVE DigitsGreater(_, _, _)
DigitsGreater(a, b, k) ==
  IF k > Len(a) THEN FALSE
  ELSE IF Ch(a, k) = Ch(b, k) THEN DigitsGreater(a, b, k + 1)
  ELSE DigitVal(Ch(a, k)) > DigitVal(Ch(b, k))

\* a > b for decimals without leading zeros.
DecimalGreater(a, b) == Len(a) > Len(b) \/ (Len(a) = Len(b) /\ DigitsGreater(a, b, 1))

\* significand * 10 + digit, c being the digit.
PushDigit(significand, c) == IF significand = "0" THEN c ELSE significand \o c

\* overflow!(significand * 10 + digit, u64::MAX)
U64Overflow(significand, c) == DecimalGreater(PushDigit(significand, c), U64Max)

\* overflow!(exp * 10 + digit, i32::MAX)
I32Overflow(exp, digit) ==
  exp > I32Max \div 10 \/ (exp = I32Max \div 10 /\ digit > I32Max % 10)

\* starting_exp.saturating_add(exp) and starting_exp.saturating_sub(exp) in
\* i32, exp being at least 0.
SaturatingAdd(starting_exp, exp) ==
  IF starting_exp > 0 /\ exp > I32Max - starting_exp THEN I32Max
  ELSE starting_exp + exp
SaturatingSub(starting_exp, exp) ==
  IF starting_exp < 0 /\ exp > (starting_exp + 1) + I32Max THEN (0 - I32Max) - 1
  ELSE starting_exp - exp

\* For each exponent from 289 to 308, the least significand f for which the
\* f64 product (f as f64) * 1e<exponent> is infinite, both factors and the
\* product rounded to nearest; below 289 no u64 has an infinite product.
LeastInfinite ==
  << "17976931348623156225", "1797693134862315649", "179769313486231600",
     "17976931348623158", "1797693134862316", "179769313486232",
     "17976931348624", "1797693134863", "179769313487", "17976931349",
     "1797693135", "179769314", "17976932", "1797694", "179770", "17977",
     "1798", "180", "18", "2" >>

\* f64_from_parts without the float_roundtrip feature, for a number that ends
\* before j: the significand as f64 times or divided by the power of ten.  A
\* zero is never out of range; an exponent above 308 is beyond the table of
\* powers and an error; a product that is infinite is an error; a division
\* never is.
f64_from_parts(j, significand, exponent) ==
  IF significand = "0" THEN JsonOk(j, "number", <<>>)
  ELSE IF exponent > 308 THEN JsonFail
  ELSE IF exponent >= 289 /\ ~DecimalGreater(LeastInfinite[exponent - 288], significand)
  THEN JsonFail
  ELSE JsonOk(j, "number", <<>>)

\* parse_exponent_overflow, i being behind the digit that overflowed: an
\* error for a significand other than zero with a positive exponent, a zero
\* otherwise, the digits left skipped.
parse_exponent_overflow(s, i, zero_significand, positive_exp) ==
  IF ~zero_significand /\ positive_exp THEN JsonFail
  ELSE JsonOk(SkipDigits(s, i), "number", <<>>)

\* The digits of an exponent from i on, exp being the value of those before.
RECURSIVE parse_exponent_digits(_, _, _, _, _, _)
parse_exponent_digits(s, i, significand, starting_exp, positive_exp, exp) ==
  IF IsDigit(Ch(s, i))
  THEN IF I32Overflow(exp, DigitVal(Ch(s, i)))
       THEN parse_exponent_overflow(s, i + 1, significand = "0", positive_exp)
       ELSE parse_exponent_digits(s, i + 1, significand, starting_exp, positive_exp,
                                  exp * 10 + DigitVal(Ch(s, i)))
  ELSE f64_from_parts(i, significand,
                      IF positive_exp THEN SaturatingAdd(starting_exp, exp)
                      ELSE SaturatingSub(starting_exp, exp))

\* The first digit of an exponent, at i behind its sign: a digit must follow
\* the exponent place.
parse_exponent_first(s, i, significand, starting_exp, positive_exp) ==
  IF IsDigit(Ch(s, i))
  THEN parse_exponent_digits(s, i + 1, significand, starting_exp, positive_exp,
                             DigitVal(Ch(s, i)))
  ELSE JsonFail

\* parse_exponent, i being where the 'e' or 'E' is: [eE] [+-]? [0-9]+
parse_exponent(s, i, significand, starting_exp) ==
  IF Ch(s, i + 1) = "+" THEN parse_exponent_first(s, i + 2, significand, starting_exp, TRUE)
  ELSE IF Ch(s, i + 1) = "-"
  THEN parse_exponent_first(s, i + 2, significand, starting_exp, FALSE)
  ELSE parse_exponent_first(s, i + 1, significand, starting_exp, TRUE)

\* What ends the digits of a number at i: an exponent, or the number.
parse_number_end(s, i, significand, exponent) ==
  IF Ch(s, i) \in {"e", "E"} THEN parse_exponent(s, i, significand, exponent)
  ELSE f64_from_parts(i, significand, exponent)

\* parse_decimal_overflow: the next digit would overflow the significand, so
\* all further digits of the fraction are ignored.
parse_decimal_overflow(s, i, significand, exponent) ==
  parse_number_end(s, SkipDigits(s, i), significand, exponent)

\* The digits of a fraction from i on, after of them read (counted down from
\* 0); at least one digit must follow the decimal point.
RECURSIVE parse_decimal_digits(_, _, _, _, _)
parse_decimal_digits(s, i, significand, before, after) ==
  IF IsDigit(Ch(s, i))
  THEN IF U64Overflow(significand, Ch(s, i))
       THEN parse_decimal_overflow(s, i, significand, before + after)
       ELSE parse_decimal_digits(s, i + 1, PushDigit(significand, Ch(s, i)),
                                 before, after - 1)
  ELSE IF after = 0 THEN JsonFail
  ELSE parse_number_end(s, i, significand, before + after)

\* parse_decimal, i being where the '.' is.
parse_decimal(s, i, significand, exponent_before_decimal_point) ==
  parse_decimal_digits(s, i + 1, significand, exponent_before_decimal_point, 0)

\* parse_long_integer: the digits of an integer that no longer fit the
\* significand are dropped and counted in the exponent.
RECURSIVE parse_long_integer(_, _, _, _)
parse_long_integer(s, i, significand, exponent) ==
  IF IsDigit(Ch(s, i)) THEN parse_long_integer(s, i + 1, significand, exponent + 1)
  ELSE IF Ch(s, i) = "." THEN parse_decimal(s, i, significand, exponent)
  ELSE parse_number_end(s, i, significand, exponent)

\* parse_number: what follows an integer that fits the significand; the
\* integer itself is always in range.
parse_number(s, i, significand) ==
  IF Ch(s, i) = "." THEN parse_decimal(s, i, significand, 0)
  ELSE IF Ch(s, i) \in {"e", "E"} THEN parse_exponent(s, i, significand, 0)
  ELSE JsonOk(i, "number", <<>>)

\* The digits of an integer from i on, behind its first.
RECURSIVE parse_integer_digits(_, _, _)
parse_integer_digits(s, i, significand) ==
  IF IsDigit(Ch(s, i))
  THEN IF U64Overflow(significand, Ch(s, i))
       THEN parse_long_integer(s, i, significand, 0)
       ELSE parse_integer_digits(s, i + 1, PushDigit(significand, Ch(s, i)))
  ELSE parse_number(s, i, significand)

\* parse_integer at i: 0 | [1-9][0-9]*; a digit after a leading 0 is an error.
parse_integer(s, i) ==
  IF Ch(s, i) = "0"
  THEN (IF IsDigit(Ch(s, i + 1)) THEN JsonFail ELSE parse_number(s, i + 1, "0"))
  ELSE IF IsDigit(Ch(s, i)) THEN parse_integer_digits(s, i + 1, Ch(s, i))
  ELSE JsonFail

\* A JSON number at i: -? then the integer, its fraction and its exponent.
JsonNumber(s, i) ==
  IF Ch(s, i) = "-" THEN parse_integer(s, i + 1) ELSE parse_integer(s, i)

\* What a piece of a string at i stands for and how long it is.
JsonPiece(len, text) == [ok |-> TRUE, len |-> len, text |-> text]
JsonNoPiece == [ok |-> FALSE, len |-> 0, text |-> <<>>]

\* Four hexadecimal digits at i, and their value.
IsHex4(s, i) == \A d \in 0..3 : IsHex(Ch(s, i + d))
Hex4(s, i) ==
  4096 * HexVal(Ch(s, i)) + 256 * HexVal(Ch(s, i + 1))
    + 16 * HexVal(Ch(s, i + 2)) + HexVal(Ch(s, i + 3))

\* The escape \uXXXX at i, whose four digits give hi: a low surrogate is an
\* error, a high one needs the escape of a low one behind it.
JsonUnicodeEscape(s, i, hi) ==
  IF hi >= 56320 /\ hi <= 57343 THEN JsonNoPiece
  ELSE IF hi >= 55296 /\ hi <= 56319
  THEN IF Ch(s, i + 6) = "\\" /\ Ch(s, i + 7) = "u" /\ IsHex4(s, i + 8)
       THEN (IF Hex4(s, i + 8) >= 56320 /\ Hex4(s, i + 8) <= 57343
             THEN JsonPiece(12, <<65536 + 1024 * (hi - 55296)
                                    + (Hex4(s, i + 8) - 56320)>>)
             ELSE JsonNoPiece)
       ELSE JsonNoPiece
  ELSE JsonPiece(6, <<hi>>)

\* The escape at i, where s has a backslash, by the character e behind it.
JsonEscape(s, i, e) ==
  CASE e = "\"" -> JsonPiece(2, <<34>>)
    [] e = "\\" -> JsonPiece(2, <<92>>)
    [] e = "/" -> JsonPiece(2, <<47>>)
    [] e = "b" -> JsonPiece(2, <<8>>)
    [] e = "f" -> JsonPiece(2, <<12>>)
    [] e = "n" -> JsonPiece(2, <<10>>)
    [] e = "r" -> JsonPiece(2, <<13>>)
    [] e = "t" -> JsonPiece(2, <<9>>)
    [] e = "u" -> IF IsHex4(s, i + 2) THEN JsonUnicodeEscape(s, i, Hex4(s, i + 2))
                  ELSE JsonNoPiece
    [] OTHER -> JsonNoPiece

\* The piece of a string at i, c being the character there: an escape, or the
\* character itself; the end of the text and a control character are errors.
JsonStringPiece(s, i, c) ==
  IF c \in {"", "\t", "\n", "\r", "\f"} THEN JsonNoPiece
  ELSE IF c = "\\" THEN JsonEscape(s, i, Ch(s, i + 1))
  ELSE JsonPiece(1, <<CodePoint(c)>>)

RECURSIVE JsonStringFrom(_, _, _)
\* The string goes on behind the piece read at i, unless that was an error.
JsonStringAppend(s, i, acc, piece) ==
  IF piece.ok THEN JsonStringFrom(s, i + piece.len, acc \o piece.text) ELSE JsonFail

\* The inside of a JSON string from i on, acc being what is decoded so far.
JsonStringFrom(s, i, acc) ==
  IF Ch(s, i) = "\"" THEN JsonOk(i + 1, "string", acc)
  ELSE JsonStringAppend(s, i, acc, JsonStringPiece(s, i, Ch(s, i)))

RECURSIVE JsonValue(_, _, _), JsonElements(_, _, _), JsonMembers(_, _, _, _, _)

\* What follows the element v of an array: ',' and more elements, or ']'.
JsonElementsAfter(s, depth, v, j) ==
  IF ~v.ok THEN JsonFail
  ELSE IF Ch(s, j) = "," THEN JsonElements(s, SkipWs(s, j + 1), depth)
  ELSE IF Ch(s, j) = "]" THEN JsonOk(j + 1, "array", <<>>)
  ELSE JsonFail

\* The white space behind the element v.
JsonElementsValue(s, depth, v) == JsonElementsAfter(s, depth, v, SkipWs(s, v.pos))

\* The elements of an array from i on, up to and including its ']'.
JsonElements(s, i, depth) == JsonElementsValue(s, depth, JsonValue(s, i, depth))

\* What follows a member of an object: ',' and more members, or '}'; idKind
\* and idStr are the kind and text of the last "id" member read so far.
JsonMembersAfter(s, depth, idKind, idStr, ok, j) ==
  IF ~ok THEN JsonFail
  ELSE IF Ch(s, j) = "," THEN JsonMembers(s, SkipWs(s, j + 1), depth, idKind, idStr)
  ELSE IF Ch(s, j) = "}"
  THEN [JsonOk(j + 1, "object", <<>>) EXCEPT !.idKind = idKind, !.idStr = idStr]
  ELSE JsonFail

\* The value v of the member whose key is key: a later "id" replaces an
\* earlier one.
JsonMemberValue(s, depth, idKind, idStr, key, v) ==
  IF key.str = CodePoints("id")
  THEN JsonMembersAfter(s, depth, v.kind, v.str, v.ok, SkipWs(s, v.pos))
  ELSE JsonMembersAfter(s, depth, idKind, idStr, v.ok, SkipWs(s, v.pos))

\* The ':' behind the key of a member, at c, and the value behind it.
JsonMemberColon(s, depth, idKind, idStr, key, c) ==
  IF key.ok /\ Ch(s, c) = ":"
  THEN JsonMemberValue(s, depth, idKind, idStr, key, JsonValue(s, SkipWs(s, c + 1), depth))
  ELSE JsonFail

\* The white space behind the key of a member.
JsonMemberKey(s, depth, idKind, idStr, key) ==
  JsonMemberColon(s, depth, idKind, idStr, key, SkipWs(s, key.pos))

\* The members of an object from i on, up to and including its '}': each a
\* string key, ':' and a value.
JsonMembers(s, i, depth, idKind, idStr) ==
  IF Ch(s, i) = "\""
  THEN JsonMemberKey(s, depth, idKind, idStr, JsonStringFrom(s, i + 1, <<>>))
  ELSE JsonFail

\* An array or object opened before j, where its first element or member or
\* its closing bracket is; depth is how many more containers may open.
JsonContainer(s, j, depth, open) ==
  IF depth <= 1 THEN JsonFail
  ELSE IF open = "[" THEN
    (IF Ch(s, j) = "]" THEN JsonOk(j + 1, "array", <<>>)
     ELSE JsonElements(s, j, depth - 1))
  ELSE
    (IF Ch(s, j) = "}" THEN JsonOk(j + 1, "object", <<>>)
     ELSE JsonMembers(s, j, depth - 1, "none", <<>>))

\* A JSON value at i.
JsonValue(s, i, depth) ==
  CASE Ch(s, i) = "n" ->
         IF StartsWith(s, i, "null") THEN JsonOk(i + 4, "null", <<>>) ELSE JsonFail
    [] Ch(s, i) = "t" ->
         IF StartsWith(s, i, "true") THEN JsonOk(i + 4, "bool", <<>>) ELSE JsonFail
    [] Ch(s, i) = "f" ->
         IF StartsWith(s, i, "false") THEN JsonOk(i + 5, "bool", <<>>) ELSE JsonFail
    [] Ch(s, i) = "\"" -> JsonStringFrom(s, i + 1, <<>>)
    [] Ch(s, i) \in {"[", "{"} -> JsonContainer(s, SkipWs(s, i + 1), depth, Ch(s, i))
    [] OTHER -> JsonNumber(s, i)

\* One value with nothing but white space behind it.
JsonWhole(text, v) ==
  IF v.ok THEN (IF SkipWs(text, v.pos) = Len(text) + 1 THEN v ELSE JsonFail)
  ELSE JsonFail

\* serde_json::from_slice::<Value>(text): one value, white space around it
\* and nothing else; at most 127 arrays and objects inside one another.
JsonDocument(text) == JsonWhole(text, JsonValue(text, SkipWs(text, 1), 128))

\* What response_data["id"] reads in the parsed value d: the "id" member of an
\* object, Null when the value is no object or has no such member.
JsonId(d) ==
  IF ~d.ok THEN [ok |-> FALSE, id |-> <<"null">>]
  ELSE IF d.idKind = "string" THEN [ok |-> TRUE, id |-> <<"string", d.idStr>>]
  ELSE IF d.idKind = "none" THEN [ok |-> TRUE, id |-> <<"null">>]
  ELSE [ok |-> TRUE, id |-> <<d.idKind>>]

\* response.json().await (lines 286-289): the serde_json::Value of the body, or
\* an error when the body cannot be read or is not one JSON value.
ParseJson(resp) ==
  IF resp.readable THEN JsonId(JsonDocument(resp.text))
  ELSE [ok |-> FALSE, id |-> <<"null">>]

\* response_data["id"].to_string() in place of as_str(): a missing member reads "null".
IdToString(value) == IF value.id[1] = "string" THEN value.id[2] ELSE CodePoints("null")

\* response_data["id"].as_str().unwrap_or_default()
IdAsStr(value) == IF value.id[1] = "string" THEN value.id[2] ELSE <<>>

\* --------------------------------------------------------------- envelopes
\* What a run has handed to the host: nothing yet, Ok(json string), a panic
\* that unwound out of fetch_stats, or a future dropped before completion.
NoResult ==
  [kind |-> "none", success |-> FALSE, errorType |-> "", shareUrl |-> <<>>,
   encryptionKey |-> <<>>, error |-> NoError]

\* serde_json::json!({"success": true, "data": {...}, "timing": ...}), lines 404-412
SuccessEnvelope(share_url, encryption_key) ==
  [kind |-> "ok", success |-> TRUE, errorType |-> "", shareUrl |-> share_url,
   encryptionKey |-> encryption_key, error |-> NoError]

\* serde_json::json!({"success": false, "error": {...}}), lines 417-431, 438-451
ErrorEnvelope(error_type, e) ==
  [kind |-> "ok", success |-> FALSE, errorType |-> error_type, shareUrl |-> <<>>,
   encryptionKey |-> <<>>, error |-> e]

Panicked == [NoResult EXCEPT !.kind = "panic"]
Cancelled == [NoResult EXCEPT !.kind = "cancelled"]

\* send_stats has not returned Ok yet.
NoReturn == [share_url |-> <<>>, key_base64 |-> <<>>]
NoPackage == [key |-> <<>>, encrypted |-> <<>>]

\* &encrypted[..32.min(encrypted.len())]
Prefix(bytes, n) == <<"prefix", n, bytes>>

\* One println!/eprintln! call: its source line and the values it formats
\* that are byte arrays or errors, each tagged with its kind (lengths and
\* durations are left out).
Line(n, values) == [line |-> n, values |-> values]
Bytes(b) == <<"bytes", b>>
Shown(e) == <<"error", e>>

\* ------------------------------------------------------------------- state
VARIABLES
  pc,         \* per run: the next step of fetch_stats
  home,       \* process-wide: whether env::var("HOME") is Ok
  sqlite,     \* process-wide: whether the SQLite runtime is initialised
  api,        \* per run: the api_url argument
  aux,        \* outside the runs: the arguments and result of one helper call
  guard,      \* per run: whether `_guard` is alive
  inited,     \* per run: whether its init_sqlite() call has completed
  shutdowns,  \* per run: how many times its guard has called shutdown_sqlite
  chatDb,     \* per run: the chat_db handle of gather_imessage_data
  abDbs,      \* per run: the address_book_dbs handles of gather_imessage_data
  sendDb,     \* per run: the chat_db handle of send_stats
  draws,      \* per run: draws made from its thread-local generator
  pkg,        \* per run: (key, encrypted_data) returned by encrypt_data
  encLog,     \* per run: the cipher.encrypt calls made, with key and nonce
  stdout,     \* per run: the lines it has written to stdout
  stderr,     \* per run: the lines it has written to stderr
  wire,       \* per run: the HTTP requests it has issued
  resp,       \* per run: the response it has received
  accepted,   \* per run: whether the server stored its artifact and answered 2xx
  err,        \* per run: the AnalyzerError that ended gather or send_stats
  ret,        \* per run: the (share_url, key_base64) send_stats returned
  result      \* per run: what the host has been handed

vars == << pc, home, sqlite, api, aux, guard, inited, shutdowns, chatDb, abDbs, sendDb,
           draws, pkg, encLog, stdout, stderr, wire, resp, accepted, err, ret, result >>

rtVars == << sqlite, guard, inited, shutdowns >>
connVars == << chatDb, abDbs, sendDb >>
cryptoVars == << draws, pkg, encLog >>
ioVars == << stdout, stderr >>
netVars == << wire, resp, accepted >>
outVars == << err, ret, result >>
\* Everything a run of fetch_stats reads or writes.
runVars == << pc, home, api, rtVars, connVars, cryptoVars, ioVars, netVars, outVars >>

\* No call of a helper is in progress.
NoAux == [op |-> "none"]

\* No run of fetch_stats has been started.
Quiescent ==
  /\ pc = [r \in Runs |-> "idle"]
  /\ home \in BOOLEAN
  /\ sqlite = FALSE
  /\ api = [r \in Runs |-> ""]
  /\ guard = [r \in Runs |-> FALSE]
  /\ inited = [r \in Runs |-> FALSE]
  /\ shutdowns = [r \in Runs |-> 0]
  /\ chatDb = [r \in Runs |-> "none"]
  /\ abDbs = [r \in Runs |-> <<>>]
  /\ sendDb = [r \in Runs |-> "none"]
  /\ draws = [r \in Runs |-> 0]
  /\ pkg = [r \in Runs |-> NoPackage]
  /\ encLog = [r \in Runs |-> <<>>]
  /\ stdout = [r \in Runs |-> <<>>]
  /\ stderr = [r \in Runs |-> <<>>]
  /\ wire = [r \in Runs |-> <<>>]
  /\ resp = [r \in Runs |-> NoResponse]
  /\ accepted = [r \in Runs |-> FALSE]
  /\ err = [r \in Runs |-> NoError]
  /\ ret = [r \in Runs |-> NoReturn]
  /\ result = [r \in Runs |-> NoResult]

Init ==
  /\ Quiescent
  /\ aux = NoAux

Goto(r, label) == pc' = [pc EXCEPT ![r] = label]

\* Leaving the scope of fetch_stats by return, unwinding or drop of the future:
\* locals are dropped in reverse declaration order, the send_stats future (with
\* its chat_db, key, payload and response) before `_guard`, whose closure calls
\* shutdown_sqlite.
LeaveScope(r) ==
  /\ pkg' = [pkg EXCEPT ![r] = NoPackage]
  /\ resp' = [resp EXCEPT ![r] = NoResponse]
  /\ err' = [err EXCEPT ![r] = NoError]
  /\ ret' = [ret EXCEPT ![r] = NoReturn]
  /\ chatDb' = [chatDb EXCEPT ![r] = DropConn(@)]
  /\ abDbs' = [abDbs EXCEPT ![r] = Live([i \in DOMAIN @ |-> DropConn(@[i])])]
  /\ sendDb' = [sendDb EXCEPT ![r] = DropConn(@)]
  /\ guard' = [guard EXCEPT ![r] = FALSE]
  /\ shutdowns' = [shutdowns EXCEPT ![r] = IF GuardDrop(guard[r]) THEN @ + 1 ELSE @]
  /\ sqlite' = IF GuardDrop(guard[r]) THEN shutdown_sqlite ELSE sqlite
  /\ UNCHANGED inited

\* A panic that ends the run without unwinding its stack: no local is dropped.
PanicNoUnwind(r, line) ==
  /\ Goto(r, "panicked")
  /\ stderr' = [stderr EXCEPT ![r] = Append(@, Line(line, <<Shown(Error("panic", <<"NotPresent">>))>>))]
  /\ result' = [result EXCEPT ![r] = Panicked]
  /\ UNCHANGED << home, api, aux, rtVars, connVars, cryptoVars, stdout, netVars, err, ret >>

\* env::var("HOME").unwrap() with HOME unset: the panic message goes to stderr
\* and the stack unwinds out of fetch_stats.
Panic(r, line) ==
  /\ Goto(r, "panicked")
  /\ LeaveScope(r)
  /\ stderr' = [stderr EXCEPT ![r] = Append(@, Line(line, <<Shown(Error("panic", <<"NotPresent">>))>>))]
  /\ result' = [result EXCEPT ![r] = Panicked]
  /\ UNCHANGED << home, api, aux, draws, encLog, stdout, wire, accepted >>

\* The host changes or removes HOME in the process environment.
EnvChange ==
  /\ home' = ~home
  /\ UNCHANGED << pc, api, aux, rtVars, connVars, cryptoVars, ioVars, netVars, outVars >>

\* fetch_stats, lines 306-311: the call, and the guard armed before init.
Invoke(r) ==
  /\ pc[r] = "idle"
  /\ \E url \in ApiUrls : api' = [api EXCEPT ![r] = url]
  /\ guard' = [guard EXCEPT ![r] = TRUE]
  /\ Goto(r, "init_sqlite")
  /\ UNCHANGED << home, aux, sqlite, inited, shutdowns, connVars, cryptoVars, ioVars,
                  netVars, outVars >>

\* lines 313-315
InitSqlite(r) ==
  /\ pc[r] = "init_sqlite"
  /\ sqlite' = init_sqlite
  /\ inited' = [inited EXCEPT ![r] = TRUE]
  /\ Goto(r, "resolve_db_path")
  /\ UNCHANGED << home, api, aux, guard, shutdowns, connVars, cryptoVars, ioVars,
                  netVars, outVars >>

\* line 317
ResolveDbPath(r) ==
  /\ pc[r] = "resolve_db_path"
  /\ IF home
     THEN /\ Goto(r, "resolve_ab_path")
          /\ UNCHANGED << home, api, aux, rtVars, connVars, cryptoVars, ioVars,
                          netVars, outVars >>
     ELSE Panic(r, 317)

\* lines 319-320
ResolveAbPath(r) ==
  /\ pc[r] = "resolve_ab_path"
  /\ IF home
     THEN /\ Goto(r, "gather_open")
          /\ UNCHANGED << home, api, aux, rtVars, connVars, cryptoVars, ioVars,
                          netVars, outVars >>
     ELSE Panic(r, 320)

\* ----------------------------------------------------- gather_imessage_data
gatherFrame == << home, api, aux, rtVars, sendDb, cryptoVars, ioVars, netVars, ret, result >>

\* A `?` inside gather_imessage_data: the function returns Err(e) and its live
\* handles go out of scope.
GatherErr(r, tag) ==
  /\ err' = [err EXCEPT ![r] = Error(tag, <<>>)]
  /\ chatDb' = [chatDb EXCEPT ![r] = DropConn(@)]
  /\ abDbs' = [abDbs EXCEPT ![r] = Live([i \in DOMAIN @ |-> DropConn(@[i])])]
  /\ Goto(r, "analysis_failed")
  /\ UNCHANGED gatherFrame

\* line 110: get_chat_db_connection(path)?
GatherOpen(r) ==
  /\ pc[r] = "gather_open"
  /\ \/ /\ chatDb' = [chatDb EXCEPT ![r] = "open"]
        /\ Goto(r, "gather_query")
        /\ UNCHANGED << abDbs, err, gatherFrame >>
     \/ GatherErr(r, "chat_db_open")

\* lines 114-115: Message::query_all(&chat_db, [])? and the sort
GatherQuery(r) ==
  /\ pc[r] = "gather_query"
  /\ \/ /\ Goto(r, "gather_ab")
        /\ UNCHANGED << chatDb, abDbs, err, gatherFrame >>
     \/ GatherErr(r, "messages_query")

\* line 119: get_address_book_db_connections(address_book_path)?
GatherAddressBooks(r) ==
  /\ pc[r] = "gather_ab"
  /\ \/ \E n \in 0..MaxShards :
          /\ abDbs' = [abDbs EXCEPT ![r] = [i \in 1..n |-> "open"]]
          /\ Goto(r, "gather_contacts")
          /\ UNCHANGED << chatDb, err, gatherFrame >>
     \/ GatherErr(r, "address_book_enum")

\* line 120: Contacts::new(&address_book_dbs, address_book_path)?
GatherContacts(r) ==
  /\ pc[r] = "gather_contacts"
  /\ \/ /\ Goto(r, "gather_close_ab")
        /\ UNCHANGED << chatDb, abDbs, err, gatherFrame >>
     \/ GatherErr(r, "contacts_new")

\* lines 121-123: for conn in address_book_dbs { let _ = conn.close(); }
GatherCloseAddressBooks(r) ==
  /\ pc[r] = "gather_close_ab"
  /\ \E oks \in [DOMAIN abDbs[r] -> BOOLEAN] :
       abDbs' = [abDbs EXCEPT ![r] = Live([i \in DOMAIN @ |-> CloseConn(@[i], oks[i])])]
  /\ Goto(r, "gather_handles")
  /\ UNCHANGED << chatDb, err, gatherFrame >>

\* line 127: Handles::new(&chat_db)?
GatherHandles(r) ==
  /\ pc[r] = "gather_handles"
  /\ \/ /\ Goto(r, "gather_close")
        /\ UNCHANGED << chatDb, abDbs, err, gatherFrame >>
     \/ GatherErr(r, "handles_new")

\* lines 130-143: let _ = chat_db.close(); Ok((messages, contacts, handles, ..))
GatherClose(r) ==
  /\ pc[r] = "gather_close"
  /\ \E ok \in BOOLEAN : chatDb' = [chatDb EXCEPT ![r] = CloseConn(@, ok)]
  /\ Goto(r, "stats")
  /\ UNCHANGED << abDbs, err, gatherFrame >>

\* ------------------------------------------------------------- fetch_stats
\* lines 436-453 and 456: the Err arm of the gather match, and the return
AnalysisFailed(r) ==
  /\ pc[r] = "analysis_failed"
  /\ stderr' = [stderr EXCEPT ![r] = Append(@, Line(437, <<Shown(err[r])>>))]
  /\ result' = [result EXCEPT ![r] = ErrorEnvelope("analysis_failed", err[r])]
  /\ LeaveScope(r)
  /\ Goto(r, "done")
  /\ UNCHANGED << home, api, aux, draws, encLog, stdout, wire, accepted >>

\* lines 325-335: get_all_yearly_stats, then the gathered data is dropped
Stats(r) ==
  /\ pc[r] = "stats"
  /\ Goto(r, "send_home")
  /\ UNCHANGED << home, api, aux, rtVars, connVars, cryptoVars, ioVars, netVars, outVars >>

\* -------------------------------------------------------------- send_stats
sendFrame == << home, api, aux, rtVars, chatDb, abDbs, result >>

\* A failed attempt is followed by another POST of the same payload.
RetryOnError(e, attempts) ==
  IF e.tag \in {"timeout", "connect", "request"} /\ attempts < 2
  THEN "post" ELSE "upload_failed"

\* A failure of encrypt_data is passed over and the request is sent all the same.
ContinueOnError(e, attempts) ==
  IF e.tag \in PackageTags THEN "post" ELSE "upload_failed"

\* The `?` / `return Err(..)` of send_stats (lines 205, 233, 265, 283, 289):
\* the error goes straight to the caller, whatever was attempted before.
OnError(e, attempts) == "upload_failed"

\* send_stats returns Err(e): its locals (chat_db, key, response) are dropped
\* and fetch_stats continues in the Err arm of line 414.
SendErr(r, e) ==
  LET returns == OnError(e, Len(wire[r])) = "upload_failed"
  IN /\ err' = [err EXCEPT ![r] = e]
     /\ Goto(r, OnError(e, Len(wire[r])))
     /\ sendDb' = [sendDb EXCEPT ![r] = IF returns THEN DropConn(@) ELSE @]
     /\ pkg' = [pkg EXCEPT ![r] = IF returns THEN NoPackage ELSE @]
     /\ resp' = [resp EXCEPT ![r] = IF returns THEN NoResponse ELSE @]

\* lines 201-204
SendResolveHome(r) ==
  /\ pc[r] = "send_home"
  /\ IF home
     THEN /\ Goto(r, "send_open_db")
          /\ UNCHANGED << home, api, aux, rtVars, connVars, cryptoVars, ioVars,
                          netVars, outVars >>
     ELSE Panic(r, 204)

\* line 205: get_chat_db_connection(&db_path)?
SendOpenDb(r) ==
  /\ pc[r] = "send_open_db"
  /\ \/ /\ sendDb' = [sendDb EXCEPT ![r] = "open"]
        /\ Goto(r, "package")
        /\ UNCHANGED << err, pkg, resp >>
     \/ SendErr(r, Error("send_chat_db_open", <<>>))
  /\ UNCHANGED << sendFrame, draws, encLog, ioVars, wire, accepted, ret >>

\* lines 229-240 with encrypt_data (146-196) inlined
Package(r) ==
  /\ pc[r] = "package"
  /\ \E key_bytes \in RngFill(ZeroKey) :
     LET out == encrypt_data(StatsBytes, key_bytes)
     IN \/ \* Ok((key, encrypted_data))
           /\ draws' = [draws EXCEPT ![r] = @ + 1]
           /\ encLog' = [encLog EXCEPT ![r] =
                           Append(@, [drawn |-> key_bytes, key |-> out.key,
                                      nonce |-> SealNonce(out.encrypted)])]
           /\ pkg' = [pkg EXCEPT ![r] = out]
           /\ stdout' = [stdout EXCEPT ![r] =
                           @ \o << Line(163, <<>>),
                                   Line(183, <<Bytes(key_bytes)>>),
                                   Line(190, <<Bytes(Prefix(out.encrypted, 32))>>),
                                   Line(234, <<>>) >>]
           /\ Goto(r, "post")
           /\ UNCHANGED << sendDb, err, resp >>
        \/ \* compressor.write_all(data)? / compressor.flush()?
           /\ SendErr(r, Error("compress_io", <<>>))
           /\ UNCHANGED << draws, encLog, stdout >>
        \/ \* cipher.encrypt(iv, ..) fails, after the key was drawn
           /\ SendErr(r, Error("encrypt", <<>>))
           /\ draws' = [draws EXCEPT ![r] = @ + 1]
           /\ stdout' = [stdout EXCEPT ![r] = Append(@, Line(163, <<>>))]
           /\ UNCHANGED encLog
  /\ UNCHANGED << sendFrame, stderr, wire, accepted, ret >>

\* lines 244-252: the request is built (encrypted_data moves into its body)
\* and sent; the task suspends
Post(r) ==
  /\ pc[r] = "post"
  /\ wire' = [wire EXCEPT ![r] =
                Append(@, UploadRequest(UploadUrl(BaseUrl(<<api[r]>>)),
                                        pkg[r].encrypted))]
  /\ stdout' = [stdout EXCEPT ![r] = Append(@, Line(245, <<>>))]
  /\ pkg' = [pkg EXCEPT ![r].encrypted = <<>>]
  /\ Goto(r, "await_send")
  /\ UNCHANGED << sendFrame, sendDb, draws, encLog, stderr, resp, accepted, err, ret >>

\* lines 253-265: send() fails (timeout, connect, anything else)
SendFailed(r) ==
  /\ pc[r] = "await_send"
  /\ \E tag \in {"timeout", "connect", "request"} :
       SendErr(r, Error(tag, UploadUrl(BaseUrl(<<api[r]>>))))
  /\ UNCHANGED << sendFrame, draws, encLog, ioVars, wire, accepted, ret >>

\* lines 252, 267: the response head arrives; the body is awaited next
Respond(r) ==
  /\ pc[r] = "await_send"
  /\ \E rs \in Responses :
       /\ resp' = [resp EXCEPT ![r] = rs]
       /\ accepted' = [accepted EXCEPT ![r] = IsSuccess(rs.status)]
       /\ Goto(r, IF IsSuccess(rs.status) THEN "await_json" ELSE "await_text")
  /\ UNCHANGED << sendFrame, sendDb, cryptoVars, ioVars, wire, outVars >>

\* lines 268-284: a non-2xx status
ErrorStatus(r) ==
  /\ pc[r] = "await_text"
  /\ SendErr(r, StatusError(resp[r]))
  /\ UNCHANGED << sendFrame, draws, encLog, ioVars, wire, accepted, ret >>

\* lines 286-302: the JSON body, the link, Ok((share_url, key_base64, ..))
ParseResponse(r) ==
  /\ pc[r] = "await_json"
  /\ LET response_data == ParseJson(resp[r])
         key_base64 == Base64Url(pkg[r].key)
     IN IF response_data.ok
        THEN /\ ret' = [ret EXCEPT ![r] =
                          [share_url |-> ShareUrl(BaseUrl(<<api[r]>>),
                                                  IdAsStr(response_data), key_base64),
                           key_base64 |-> key_base64]]
             /\ sendDb' = [sendDb EXCEPT ![r] = DropConn(@)]
             /\ pkg' = [pkg EXCEPT ![r] = NoPackage]
             /\ resp' = [resp EXCEPT ![r] = NoResponse]
             /\ Goto(r, "timing")
             /\ UNCHANGED err
        ELSE /\ SendErr(r, Error("response_json", <<>>))
             /\ UNCHANGED ret
  /\ UNCHANGED << sendFrame, draws, encLog, ioVars, wire, accepted >>

\* The host drops the fetch_stats future while it is suspended at an await.
Cancel(r) ==
  /\ pc[r] \in {"await_send", "await_text", "await_json"}
  /\ LeaveScope(r)
  /\ result' = [result EXCEPT ![r] = Cancelled]
  /\ Goto(r, "cancelled")
  /\ UNCHANGED << home, api, aux, draws, encLog, ioVars, wire, accepted >>

\* lines 414-433 and 456: the Err arm of the send_stats match, and the return
UploadFailed(r) ==
  /\ pc[r] = "upload_failed"
  /\ stderr' = [stderr EXCEPT ![r] = Append(@, Line(415, <<Shown(err[r])>>))]
  /\ result' = [result EXCEPT ![r] = ErrorEnvelope("upload_failed", err[r])]
  /\ LeaveScope(r)
  /\ Goto(r, "done")
  /\ UNCHANGED << home, api, aux, draws, encLog, stdout, wire, accepted >>

\* lines 339-412 and 456: the timing report (get_chat_db_size reads HOME
\* again, line 461), the success envelope, and the return
Timing(r) ==
  /\ pc[r] = "timing"
  /\ IF home
     THEN /\ result' = [result EXCEPT ![r] =
                          SuccessEnvelope(ret[r].share_url, ret[r].key_base64)]
          /\ LeaveScope(r)
          /\ Goto(r, "done")
          /\ UNCHANGED << home, api, aux, draws, encLog, ioVars, wire, accepted >>
     ELSE Panic(r, 461)

Next ==
  \/ EnvChange
  \/ \E r \in Runs :
       \/ Invoke(r) \/ InitSqlite(r) \/ ResolveDbPath(r) \/ ResolveAbPath(r)
       \/ GatherOpen(r) \/ GatherQuery(r) \/ GatherAddressBooks(r)
       \/ GatherContacts(r) \/ GatherCloseAddressBooks(r) \/ GatherHandles(r)
       \/ GatherClose(r) \/ AnalysisFailed(r) \/ Stats(r)
       \/ SendResolveHome(r) \/ SendOpenDb(r) \/ Package(r) \/ Post(r)
       \/ SendFailed(r) \/ Respond(r) \/ ErrorStatus(r) \/ ParseResponse(r)
       \/ Cancel(r) \/ UploadFailed(r) \/ Timing(r)

Spec == Init /\ [][Next]_vars

\* ------------------------------------------------- the sort of line 115 alone
\* gather_imessage_data, lines 113-116, on every list the query may yield.
SortInit ==
  /\ Quiescent
  /\ aux \in {[op |-> "sort", messages |-> m, sorted |-> <<>>, done |-> FALSE] :
              m \in MessageLists}

SortMessages ==
  /\ aux.op = "sort"
  /\ ~aux.done
  /\ aux' = [aux EXCEPT !.sorted = SortByKey(aux.messages), !.done = TRUE]
  /\ UNCHANGED runVars

SortNext == SortMessages

SortSpec == SortInit /\ [][SortNext]_vars

\* ------------------------------------- get_chat_db_size and has_contacts alone
\* The host calls the two exported queries, in either order, in an environment
\* with or without HOME, with any state of the chat.db file and address book.
ProbeInit ==
  /\ Quiescent
  /\ aux \in [op : {"probe"}, metadata : Metadatas, book : Books,
              size : {NotCalled}, contacts : {NotCalled}]

GetChatDbSize ==
  /\ aux.op = "probe"
  /\ aux.size.kind = "none"
  /\ aux' = [aux EXCEPT !.size = get_chat_db_size(home, aux.metadata)]
  /\ UNCHANGED runVars

HasContacts ==
  /\ aux.op = "probe"
  /\ aux.contacts.kind = "none"
  /\ aux' = [aux EXCEPT !.contacts = has_contacts(home, aux.book)]
  /\ UNCHANGED runVars

ProbeNext == GetChatDbSize \/ HasContacts

ProbeSpec == ProbeInit /\ [][ProbeNext]_vars

\* ================================================================== claims
Ended(r) == pc[r] \in {"done", "panicked", "cancelled"}
GatherPcs == {"gather_query", "gather_ab", "gather_contacts", "gather_close_ab",
              "gather_handles", "gather_close"}
AwaitPcs == {"await_send", "await_text", "await_json"}
NoneOpen(conns) == \A i \in DOMAIN conns : conns[i] # "open"

\* C1: a run whose init_sqlite completed has called shutdown_sqlite exactly
\* once when it has ended (returned, panicked or been cancelled), and never
\* before that or more than once.
ShutdownExactlyOnce ==
  \A r \in Runs :
    /\ shutdowns[r] <= 1
    /\ (~Ended(r)) => shutdowns[r] = 0
    /\ (Ended(r) /\ inited[r]) => shutdowns[r] = 1

\* Two runs past init_sqlite that left by different exits, one cancelled at
\* an await and one by a HOME panic, each with its shutdown done.
ShutdownExactlyOnceWitness ==
  \E r1, r2 \in Runs :
    /\ pc[r1] = "cancelled" /\ inited[r1] /\ shutdowns[r1] = 1
    /\ pc[r2] = "panicked" /\ inited[r2] /\ shutdowns[r2] = 1

\* C2: every run that has terminated handed the host Ok(envelope): no panic
\* leaves fetch_stats, whatever failed inside.
EnvelopeOnEveryTermination ==
  \A r \in Runs : pc[r] \in {"done", "panicked"} => result[r].kind = "ok"

\* C3: in a failure envelope errorType is "analysis_failed" exactly when
\* gather_imessage_data failed and "upload_failed" exactly when packaging or
\* the upload failed.
ErrorTypeIdentifiesHalf ==
  \A r \in Runs :
    (pc[r] = "done" /\ ~result[r].success) =>
      /\ result[r].errorType = "analysis_failed" <=> result[r].error.tag \in GatherTags
      /\ result[r].errorType = "upload_failed" <=>
           result[r].error.tag \in PackageTags \cup UploadTags

\* C4: each encrypt_data call draws its own key and uses it for exactly one
\* encryption under the all-zero nonce.  A run never encrypts more often than
\* it has drawn from the generator; every cipher.encrypt call has the all-zero
\* nonce and, as its key, the bytes drawn inside the same encrypt_data call,
\* which are also the key the call returns; the key a run holds and the key
\* its request body is sealed under are those of its own encryption; and no
\* key outlives its run: a run that has ended holds no package.
SingleUseKey ==
  \A r \in Runs :
    /\ Len(encLog[r]) <= draws[r]
    /\ \A i \in DOMAIN encLog[r] :
         /\ encLog[r][i].nonce = ZeroNonce
         /\ encLog[r][i].drawn \in RngFill(ZeroKey)
         /\ encLog[r][i].key = encLog[r][i].drawn
    /\ pkg[r].key # <<>> => pkg[r].key = encLog[r][Len(encLog[r])].drawn
    /\ pkg[r].encrypted # <<>> =>
         /\ SealKey(pkg[r].encrypted) = encLog[r][Len(encLog[r])].drawn
         /\ SealNonce(pkg[r].encrypted) = ZeroNonce
    /\ \A j \in DOMAIN wire[r] :
         /\ Len(encLog[r]) = 1
         /\ SealKey(wire[r][j].body) = encLog[r][1].drawn
         /\ SealNonce(wire[r][j].body) = ZeroNonce
    /\ Ended(r) => pkg[r] = NoPackage

\* Every run has encrypted once and sent its request, each under the bytes of
\* its own draw, and two of the draws gave different bytes.
SingleUseKeyWitness ==
  /\ \A r \in Runs : Len(encLog[r]) = 1 /\ Len(wire[r]) = 1 /\ draws[r] = 1
  /\ \E r1, r2 \in Runs : r1 # r2 /\ encLog[r1][1].drawn # encLog[r2][1].drawn

\* C5: no line written to stdout or stderr carries the bytes of a key.
KeyNeverLogged ==
  \A r, s \in Runs : \A i \in DOMAIN encLog[r] :
    \A out \in {stdout[s], stderr[s]} : \A l \in DOMAIN out :
      \A v \in DOMAIN out[l].values :
        out[l].values[v][1] = "bytes" => out[l].values[v][2] # encLog[r][i].key

\* C6: no request carries a key: the URL is the upload URL without fragment,
\* the only header is the content type, the body is neither a key nor its
\* base64url text; and a link with the key exists only once the 2xx response
\* to the run's single request has arrived.
KeyNeverOnWire ==
  /\ \A s \in Runs : \A j \in DOMAIN wire[s] :
       /\ wire[s][j].url = UploadUrl(BaseUrl(<<api[s]>>))
       /\ "#" \notin Range(wire[s][j].url)
       /\ wire[s][j].headers = {<<"Content-Type", "application/octet-stream">>}
       /\ \A r \in Runs : \A i \in DOMAIN encLog[r] :
            /\ wire[s][j].body # encLog[r][i].key
            /\ ~ ( /\ Len(wire[s][j].body) = Base64Len(Len(encLog[r][i].key))
                   /\ wire[s][j].body = Base64Url(encLog[r][i].key) )
  /\ \A r \in Runs :
       (ret[r] # NoReturn \/ result[r].shareUrl # <<>>) =>
         (accepted[r] /\ Len(wire[r]) = 1)

\* A run holds its link while its request, sent earlier, is on record.
KeyNeverOnWireWitness ==
  \E r \in Runs :
    /\ pc[r] = "timing" /\ Len(wire[r]) = 1 /\ Len(encLog[r]) = 1
    /\ ret[r].key_base64 = Base64Url(encLog[r][1].key)
    /\ ret[r].share_url[5] = ret[r].key_base64

\* C7: a run has a store connection open only inside gather_imessage_data,
\* and none while its upload request is in flight.
StorageConfinedToGather ==
  \A r \in Runs :
    (pc[r] \notin GatherPcs) =>
      (chatDb[r] # "open" /\ NoneOpen(abDbs[r]) /\ sendDb[r] # "open")

\* C8: once gather_imessage_data has returned, Ok or Err, every handle it
\* opened has been closed by a close() call that succeeded, and so has every
\* handle of a run that has ended.
ExplicitlyClosed ==
  \A r \in Runs :
    /\ pc[r] \notin GatherPcs =>
         (chatDb[r] \in {"none", "closed"} /\ NoneOpen(abDbs[r]))
    /\ Ended(r) => sendDb[r] \in {"none", "closed"}

\* C9: a run issues at most one request and encrypts at most once; after a
\* failed attempt it is in the Err arm, or done with a failure envelope, with
\* that single request on record.
NoRetry ==
  \A r \in Runs :
    /\ Len(wire[r]) <= 1 /\ Len(encLog[r]) <= 1
    /\ err[r].tag \in UploadTags => (pc[r] = "upload_failed" /\ Len(wire[r]) = 1)
    /\ (pc[r] = "done" /\ result[r].error.tag \in UploadTags) =>
         (~result[r].success /\ Len(wire[r]) = 1)

\* A run ended with the failure envelope of a timed-out attempt.
NoRetryWitness ==
  \E r \in Runs :
    /\ pc[r] = "done" /\ result[r].error.tag = "timeout"
    /\ result[r].errorType = "upload_failed" /\ Len(wire[r]) = 1

\* C10: a run that returned either succeeded with its artifact stored by the
\* server and a link in the envelope, or failed with nothing stored.
AllOrNothing ==
  \A r \in Runs :
    pc[r] = "done" =>
      \/ result[r].success /\ accepted[r] /\ result[r].shareUrl # <<>>
      \/ ~result[r].success /\ ~accepted[r]

\* C11 as stated: every success envelope carries a link base + "/s/" + id + "#"
\* + key in which both the id and the key are non-empty, whatever 2xx JSON body
\* the server sent.  The code takes an absent or non-string "id" as "".
ShareUrlIdNonEmpty ==
  \A r \in Runs :
    result[r].success =>
      /\ Len(result[r].shareUrl) = 5
      /\ result[r].shareUrl[2] = "/s/"
      /\ result[r].shareUrl[3] # <<>>
      /\ result[r].shareUrl[4] = "#"
      /\ result[r].shareUrl[5] # <<>>

\* C11, amended: every success envelope carries a link made of the base URL the
\* run was given, "/s/", the string "id" of the response or nothing when the
\* response has no string "id", "#", and the 44 characters of the padded
\* base64url text of the 32-byte key (43 of the URL-safe alphabet and one "="),
\* the same text as encryptionKey.
ShareUrlShape ==
  \A r \in Runs :
    result[r].success =>
      /\ Len(result[r].shareUrl) = 5
      /\ result[r].shareUrl[1] = BaseUrl(<<api[r]>>)
      /\ result[r].shareUrl[1] # ""
      /\ result[r].shareUrl[2] = "/s/"
      /\ result[r].shareUrl[3] \in {IdAsStr(ParseJson(p)) : p \in {q \in Responses : ParseJson(q).ok}}
      /\ result[r].shareUrl[4] = "#"
      /\ result[r].shareUrl[5] = result[r].encryptionKey
      /\ Len(result[r].shareUrl[5]) = Base64Len(KeyLen)
      /\ \A i \in DOMAIN result[r].shareUrl[5] :
           \/ \E j \in DOMAIN Alphabet : Alphabet[j] = result[r].shareUrl[5][i]
           \/ i = Base64Len(KeyLen) /\ result[r].shareUrl[5][i] = "="

\* Two runs have succeeded, one with a server-assigned id and one without.
ShareUrlShapeWitness ==
  \E r, s \in Runs :
    /\ result[r].success /\ result[r].shareUrl[3] = CodePoints("abc")
    /\ result[s].success /\ result[s].shareUrl[3] = <<>>

\* C12: the list gather_imessage_data works with holds exactly the rows the
\* query yielded, in non-decreasing order of date, and rows with equal dates
\* keep the order in which they were retrieved.
SortedStablePermutation ==
  (aux.op = "sort" /\ aux.done) =>
    /\ Len(aux.sorted) = Len(aux.messages)
    /\ \A i \in DOMAIN aux.messages : \E j \in DOMAIN aux.sorted : aux.sorted[j] = aux.messages[i]
    /\ \A i, j \in DOMAIN aux.sorted :
         i < j =>
           /\ aux.sorted[i].date <= aux.sorted[j].date
           /\ aux.sorted[i].date = aux.sorted[j].date =>
                aux.sorted[i].rowid < aux.sorted[j].rowid

\* A list that was out of order and had two rows with the same date has been sorted.
SortedStablePermutationWitness ==
  /\ aux.op = "sort" /\ aux.done
  /\ \E i, j \in DOMAIN aux.messages : i < j /\ aux.messages[i].date > aux.messages[j].date
  /\ \E i, j \in DOMAIN aux.messages : i < j /\ aux.messages[i].date = aux.messages[j].date
  /\ aux.sorted # aux.messages

\* C13: neither auxiliary query ever fails: get_chat_db_size returns Ok(0.0)
\* when the file cannot be inspected, has_contacts returns Ok(false) when the
\* address book cannot be opened or holds no record and Ok(true) exactly when
\* some source yields a record, and neither panics in any environment.  Both
\* unwrap env::var("HOME") first.
AuxiliaryQueriesNeverFail ==
  aux.op = "probe" =>
    /\ aux.size.kind # "none" =>
         /\ aux.size.kind = "ok"
         /\ ~aux.metadata.ok => aux.size.value = Mb(0)
    /\ aux.contacts.kind # "none" =>
         /\ aux.contacts.kind = "ok"
         /\ aux.contacts.value =
              (aux.book.ok /\ \E i \in DOMAIN aux.book.sources : aux.book.sources[i] = "some")

\* The phase a position of fetch_stats belongs to: 1 runtime acquisition (and
\* path resolution), 2 gather, 3 stats production, 4 packaging, 5 upload,
\* 6 the success arm, 7 an end of the run.
PhaseRank(label) ==
  CASE label = "idle" -> 0
    [] label \in {"init_sqlite", "resolve_db_path", "resolve_ab_path"} -> 1
    [] label \in {"gather_open"} \cup GatherPcs -> 2
    [] label = "stats" -> 3
    [] label \in {"send_home", "send_open_db", "package"} -> 4
    [] label \in {"post"} \cup AwaitPcs -> 5
    [] label = "timing" -> 6
    [] OTHER -> 7
FailureTag(r) == IF err[r].tag # "none" THEN err[r].tag ELSE result[r].error.tag

PhasesInOrder ==
  \A r \in Runs :
    /\ PhaseRank(pc[r]) \in 2..6 => inited[r]
    /\ chatDb[r] # "none" => inited[r]
    /\ PhaseRank(pc[r]) \in 0..3 =>
         draws[r] = 0 /\ encLog[r] = <<>> /\ sendDb[r] = "none" /\ wire[r] = <<>>
    /\ PhaseRank(pc[r]) \in 3..6 => chatDb[r] \in {"closed", "close_failed"} /\ abDbs[r] = <<>>
    /\ PhaseRank(pc[r]) = 4 => wire[r] = <<>>
    /\ (draws[r] > 0 \/ sendDb[r] # "none") => chatDb[r] \in {"closed", "close_failed"}
    /\ wire[r] # <<>> => Len(encLog[r]) = 1 /\ draws[r] = 1
    /\ FailureTag(r) \in GatherTags =>
         draws[r] = 0 /\ encLog[r] = <<>> /\ sendDb[r] = "none" /\ wire[r] = <<>>
    /\ FailureTag(r) \in PackageTags \cup SendStoreTags => wire[r] = <<>>
PhaseStep ==
  \A r \in Runs :
    pc'[r] # pc[r] =>
      /\ PhaseRank(pc'[r]) \in {PhaseRank(pc[r]), PhaseRank(pc[r]) + 1, 7}
      /\ pc'[r] = "analysis_failed" => PhaseRank(pc[r]) = 2
      /\ pc'[r] = "upload_failed" => PhaseRank(pc[r]) \in {4, 5}

\* C15: within a run the phases run one after the other in the order runtime
\* acquisition, gather, stats production, packaging, upload: each step stays in
\* its phase, moves to the next one or ends the run; a phase is entered only
\* with the work of the earlier ones done; after a gather failure nothing is
\* packaged or sent, and after a packaging failure nothing is sent.
PhasesSequential == []PhasesInOrder /\ [][PhaseStep]_vars

\* One run is uploading, with every earlier phase behind it, while another has
\* ended with a gather failure.
PhasesSequentialWitness ==
  \E r, s \in Runs :
    /\ pc[r] \in AwaitPcs /\ Len(wire[r]) = 1 /\ chatDb[r] \in {"closed", "close_failed"}
    /\ pc[s] = "done" /\ result[s].error.tag \in GatherTags

\* The source line of the unwrap that ended run r.
PanicLine(r) == stderr[r][Len(stderr[r])].line

\* C16 as stated: when a run fails because HOME cannot be read, the runtime has
\* not been initialised, no store connection has been opened and no request
\* has been issued.  init_sqlite() (line 314) runs before the first read of
\* HOME (line 317).
HomeFailureBeforeAnyPhase ==
  \A r \in Runs :
    pc[r] = "panicked" =>
      /\ ~inited[r]
      /\ chatDb[r] = "none" /\ abDbs[r] = <<>> /\ sendDb[r] = "none"
      /\ wire[r] = <<>>

\* C16, amended: a run that finds HOME unset when it resolves its paths (lines
\* 317 and 320) fails there, before gather: it has opened no store connection,
\* drawn no key and issued no request; its init_sqlite() has completed and its
\* guard has called shutdown_sqlite once by the time the failure is out.
HomeFailureBeforeGather ==
  \A r \in Runs :
    (pc[r] = "panicked" /\ PanicLine(r) \in {317, 320}) =>
      /\ inited[r] /\ shutdowns[r] = 1 /\ ~guard[r]
      /\ chatDb[r] = "none" /\ abDbs[r] = <<>> /\ sendDb[r] = "none"
      /\ draws[r] = 0 /\ stdout[r] = <<>>
      /\ wire[r] = <<>>

\* A run has failed at the first read of HOME, with the runtime initialised.
HomeFailureBeforeGatherWitness ==
  \E r \in Runs :
    /\ pc[r] = "panicked" /\ PanicLine(r) = 317
    /\ inited[r] /\ shutdowns[r] = 1 /\ ~home

\* The error a run's upload ended with, while it is held or once it is in the
\* envelope.
Failure(r) == IF err[r].tag # "none" THEN err[r] ELSE result[r].error
UploadErrorsKept ==
  /\ \A r, s \in Runs :
       (/\ Failure(r).tag \in {"timeout", "connect", "http_status", "response_json"}
        /\ Failure(s).tag \in {"timeout", "connect", "http_status", "response_json"}
        /\ Failure(r).tag # Failure(s).tag)
       => ErrorMessage(Failure(r)) # ErrorMessage(Failure(s))
  /\ \A r \in Runs :
       Failure(r).tag = "http_status" =>
         /\ ~IsSuccess(Failure(r).detail[1])
         /\ Failure(r).detail[3] # ""
         /\ ret[r].share_url = <<>> /\ result[r].shareUrl = <<>> /\ ~result[r].success
UploadErrorStep ==
  \A r \in Runs :
    /\ (pc[r] = "await_send" /\ pc'[r] = "upload_failed") =>
         /\ err'[r].tag \in {"timeout", "connect", "request"}
         /\ err'[r].detail = UploadUrl(BaseUrl(<<api[r]>>))
    /\ (pc[r] = "await_text" /\ pc'[r] \notin {"await_text", "cancelled"}) =>
         /\ ~IsSuccess(resp[r].status)
         /\ pc'[r] = "upload_failed"
         /\ err'[r].tag = "http_status"
         /\ err'[r].detail[1] = resp[r].status
         /\ err'[r].detail[3] =
              (IF resp[r].readable /\ resp[r].text # "" THEN resp[r].text
               ELSE "No error details provided")
    /\ (ret[r].share_url = <<>> /\ ret'[r].share_url # <<>>) =>
         pc[r] = "await_json" /\ IsSuccess(resp[r].status)
    /\ (pc[r] = "await_json" /\ pc'[r] = "upload_failed") =>
         /\ err'[r].tag = "response_json"
         /\ ~ParseJson(resp[r]).ok

\* C17: a timeout, a connection failure, a non-2xx status and a malformed 2xx
\* body end send_stats with four errors whose texts differ pairwise; the error
\* of a non-2xx status carries the status code and the body text, or the
\* placeholder when the body is empty, and no link is built after it.
UploadErrorsDistinct == []UploadErrorsKept /\ [][UploadErrorStep]_vars

\* Two runs have failed in the upload for different causes, one of them on a
\* non-2xx answer with an empty body.
UploadErrorsDistinctWitness ==
  \E r, s \in Runs :
    /\ pc[r] = "done" /\ result[r].error.tag = "http_status"
    /\ result[r].error.detail[3] = "No error details provided"
    /\ pc[s] = "done" /\ result[s].error.tag \in {"timeout", "connect", "response_json"}

EmptyIdStep ==
  \A r \in Runs :
    /\ (/\ pc[r] = "await_json" /\ pc'[r] \notin {"await_json", "cancelled"}
        /\ ParseJson(resp[r]).ok /\ ParseJson(resp[r]).id[1] # "string")
       => /\ pc'[r] = "timing"
          /\ err'[r].tag = "none"
          /\ ret'[r].share_url =
               <<BaseUrl(<<api[r]>>), "/s/", <<>>, "#", Base64Url(encLog[r][1].key)>>
    /\ (pc[r] = "timing" /\ pc'[r] = "done") =>
         /\ result'[r].success
         /\ result'[r].shareUrl = ret[r].share_url

\* C18: a 2xx answer whose JSON body has no string "id" does not make
\* send_stats fail: it returns the link base + "/s/" + "" + "#" + the base64url
\* text of the key, and the envelope fetch_stats then returns is the success
\* envelope with that link.
EmptyIdTolerated == [][EmptyIdStep]_vars

\* A run whose artifact was accepted has returned a success envelope whose link
\* has an empty id.
EmptyIdToleratedWitness ==
  \E r \in Runs :
    /\ pc[r] = "done" /\ accepted[r] /\ result[r].success
    /\ result[r].shareUrl[3] = <<>>

\* C19: a run that has returned the success envelope has issued one POST, whose
\* body is the ciphertext its own encrypt_data call produced; the fragment of
\* shareUrl and encryptionKey are both the base64url text of the key that
\* sealed that ciphertext; and neither the key nor the body is that of another
\* run whose draw gave other bytes.
ArtifactKeyPairing ==
  \A r \in Runs :
    (pc[r] = "done" /\ result[r].success) =>
      /\ Len(wire[r]) = 1 /\ Len(encLog[r]) = 1
      /\ wire[r][1].body = Seal(encLog[r][1].key, encLog[r][1].nonce, Compress(StatsBytes))
      /\ result[r].encryptionKey = Base64Url(encLog[r][1].key)
      /\ result[r].shareUrl[5] = result[r].encryptionKey
      /\ \A s \in Runs \ {r} :
           (Len(encLog[s]) > 0 /\ encLog[s][1].key # encLog[r][1].key) =>
             /\ SealKey(wire[r][1].body) # encLog[s][1].key
             /\ \A j \in DOMAIN wire[s] : wire[s][j].body # wire[r][1].body
             /\ result[s].success => result[s].encryptionKey # result[r].encryptionKey

\* Two interleaved runs whose draws gave different bytes have both returned a
\* success envelope.
ArtifactKeyPairingWitness ==
  /\ \A r \in Runs :
       /\ pc[r] = "done" /\ result[r].success /\ accepted[r]
       /\ Len(wire[r]) = 1
  /\ \E r, s \in Runs : encLog[r][1].key # encLog[s][1].key

\* Run r is between its init_sqlite() and the close of its last store
\* connection (the one send_stats holds until it returns).
UsesRuntime(r) == inited[r] /\ PhaseRank(pc[r]) \in 1..5
InitsAlternate == Cardinality({r \in Runs : inited[r] /\ shutdowns[r] = 0}) <= 1
NoShutdownUnderUse == \A r \in Runs : UsesRuntime(r) => sqlite

\* C20: with interleaved runs the runtime is initialised whenever a run uses
\* it: no run's init_sqlite comes between another run's init_sqlite and
\* shutdown_sqlite, and no shutdown_sqlite comes while another run is between
\* its init_sqlite and the close of its last store connection.  fetch_stats
\* calls both without looking at any other run.
RuntimeInitialisedWhenUsed == InitsAlternate /\ NoShutdownUnderUse

====
